---- MODULE Spec2Model ----
(***************************************************************************)
(* StorageManager (src/app.js lines 4-82): a namespaced key/value store    *)
(* over localStorage with JSON serialisation, per-key debounce timers and  *)
(* per-key subscriber lists; and the two views that keep checkbox state in *)
(* it, SkillView.toggleSkill and QuestView.handleObjectiveChange.          *)
(*                                                                         *)
(* Strings that the code takes apart (keys) are sequences of characters;   *)
(* stored texts are TLA+ strings.  JavaScript values are records           *)
(* [t |-> type, s |-> payload]; a plain object is [t |-> "object",         *)
(* keys |-> its own property names in insertion order].                    *)
(***************************************************************************)
EXTENDS Integers, Sequences, FiniteSets, Bags, TLC

VARIABLES
    storage,      \* localStorage: physical key -> stored text
    disabled,     \* localStorage access throws (storage disabled for the page)
    subscribers,  \* Map: logical key -> array of registered handlers
    timers,       \* Map: the logical keys that have an entry (a timeout id)
    scheduled,    \* the browser's outstanding timeouts, a bag of [key, value, rec]
    written,      \* history: logical keys stored at load or written by a commit since
    dom           \* the page: checkboxes and what the views display

vars == <<storage, disabled, subscribers, timers, scheduled, written, dom>>

-----------------------------------------------------------------------------
(* Bounds of the model *)

\* timeouts outstanding at a time
MaxTimers == 2

\* handlers registered at a time, over all keys
MaxSubs == 2

-----------------------------------------------------------------------------
(* Program constants *)

prefix == <<"a","r","c","-","r","a","i","d","e","r","s","-","t","r","a","c","k","e","r">>

defaultDelay == 180

-----------------------------------------------------------------------------
(* JavaScript values and JSON *)

VNull  == [t |-> "null",   s |-> "null"]
VZero  == [t |-> "number", s |-> "0"]
VFive  == [t |-> "number", s |-> "5"]

VSeven == [t |-> "number", s |-> "7"]
VEight == [t |-> "number", s |-> "8"]

VTrue  == [t |-> "boolean", s |-> "true"]
VFalse == [t |-> "boolean", s |-> "false"]

\* The skills and the quest the views of the model show (DataRepository).
SkillIds == {"used-to-the-weight", "blast-born"}

QuestId == "picking-up-the-pieces"

\* quest.objectives, by index
ObjectiveIndexes == {0, 1}

\* A plain object whose own properties, in insertion order, are keys, each
\* with the value true: what SkillView keeps under 'skills:selected'.
VObject(keys) == [t |-> "object", keys |-> keys]

SelectedObjects ==
    {VObject(<<>>)}
      \cup {VObject(<<a>>) : a \in SkillIds}
      \cup {VObject(p) : p \in {q \in SkillIds \X SkillIds : q[1] # q[2]}}

\* An object that refers to itself: JSON.stringify throws a TypeError on it.
VCyclic == [t |-> "cyclic", s |-> "[Circular]"]

\* The values JSON can represent, among those the model passes around.
JsonValues == {VNull, VZero, VFive}

\* The values whose JSON texts localStorage holds in the model: the store's
\* own and those of the other users of the storage.
StoredValues == JsonValues \cup {VSeven, VEight} \cup {VTrue, VFalse} \cup SelectedObjects

\* The values callers pass to set and hydrate in the model.
Values == {VZero, VFive}

\* The values a caller misusing the store passes to set: those JSON cannot
\* serialise.
MisuseValues == {VCyclic}

\* Fallbacks passed to get.
Fallbacks == {VNull, VFive}

\* The members of a JSON object text for the properties keys, all true.
RECURSIVE Members(_)
Members(keys) ==
    IF keys = <<>> THEN ""
    ELSE "\"" \o Head(keys) \o "\":true"
           \o (IF Tail(keys) = <<>> THEN "" ELSE "," \o Members(Tail(keys)))

\* JSON.stringify on the value kinds of the model.  Non-finite numbers
\* serialise as null.
Stringify(v) ==
    CASE v.t = "null"      -> "null"
      [] v.t = "number"    -> IF v.s \in {"NaN", "Infinity", "-Infinity"} THEN "null" ELSE v.s
      [] v.t = "boolean"   -> v.s
      [] v.t = "string"    -> "\"" \o v.s \o "\""
      [] v.t = "object"    -> "{" \o Members(v.keys) \o "}"

\* JSON.stringify throws on a value it cannot serialise.
StringifyThrows(v) == v.t = "cyclic"

\* JSON.parse: the value whose JSON text is raw; any other text is a SyntaxError.
ParseOk(raw) == \E v \in StoredValues : Stringify(v) = raw

Parse(raw) == CHOOSE v \in StoredValues : Stringify(v) = raw

\* A stored text that is not JSON.
BadText == "{oops"

-----------------------------------------------------------------------------
(* Keys *)

K1 == <<"k">>
K2 == <<"x">>

\* Logical keys the callers use.
Keys == {K1, K2}

\* Mutant of buildKey: the key is used as it is, without the namespace.
buildKeyBare(key) == key

buildKey(key) == prefix \o <<":">> \o key

\* The physical key format that earlier sessions wrote: "<prefix>:<logical key>".
PhysicalKey(k) == prefix \o <<":">> \o k

\* Physical keys of other users of the same localStorage, with their texts.
\* The first is spelled like logical key K2; the second begins with the text of
\* the prefix but has no ":" delimiter.
ForeignStorage == (<<"x">> :> "7") @@ ((prefix \o <<"x">>) :> "8")

\* localStorage as the page finds it at load: nothing of the store's own, or a
\* text under K2 that an earlier session left and that is not JSON.
InitialStorages == {ForeignStorage, (PhysicalKey(K2) :> BadText) @@ ForeignStorage}

\* Map.prototype.set and Map.prototype.delete on a function, and the empty Map.
EmptyMap == [x \in {} |-> x]

MapSet(m, k, v) == (k :> v) @@ m

MapDelete(m, k) == [x \in DOMAIN m \ {k} |-> m[x]]

-----------------------------------------------------------------------------
(* Handlers.  A handler is a callback of the caller's; the model registers  *)
(* handlers of these behaviours.                                            *)

\* h1, h2: look at the value and return.
\* hSet: mirrors the value into K1 with set(K1, value), default debounce.
Handlers == {"h1", "h2", "hSet"}

\* hThrow: throws an exception when it is called.
FaultyHandlers == {"hThrow"}

\* hUnsub: when it is notified for a key, it unsubscribes h1 from that key.
ReentrantHandlers == {"hUnsub"}

\* The debounce options callers pass to set: write at once, or the default delay.
Debounces == {0, defaultDelay}

-----------------------------------------------------------------------------
(* Timeouts.  A timeout id is an opaque handle, and the code uses it only to *)
(* cancel the timeout that timers records for a key.  The model keeps no    *)
(* ids: field rec of an outstanding timeout says that the entry of timers   *)
(* for its key holds this timeout's id.  An entry of timers whose key has   *)
(* no outstanding timeout with rec set holds the id of a timeout that has   *)
(* already run.  Timeouts that agree on key, value and rec are              *)
(* interchangeable, so the outstanding timeouts form a bag.                 *)
(*                                                                          *)
(* The store's operations, as functions on a record s of the store's state: *)
(* the fields are the variables of the same names, plus                     *)
(*   fails   the logical keys whose setItem throws during this operation    *)
(*           (quota exceeded),                                              *)
(*   called  the handler calls made so far by this operation, in order,     *)
(*   thrown  an exception is propagating out of the operation.              *)

\* clearTimeout(timers.get(key)): the timeout recorded for the key, if still
\* outstanding, is dropped.
clearTimeout(s, key) ==
    [s EXCEPT !.scheduled = [t \in {u \in DOMAIN @ : ~(u.key = key /\ u.rec)} |-> @[t]]]

\* timers.set(key, setTimeout(callback, delay)): a new timeout is outstanding
\* and it is the one recorded for the key.
setTimeout(s, key, value) ==
    [s EXCEPT !.scheduled = @ (+) SetToBag({[key |-> key, value |-> value, rec |-> TRUE]}),
              !.timers = @ \cup {key}]

\* Mutant of timersDelete: timers.clear(), no timeout is recorded for any key.
timersDeleteAll(s, key) ==
    [s EXCEPT !.scheduled = [n \in {[t EXCEPT !.rec = FALSE] : t \in DOMAIN @} |->
                               (IF n \in DOMAIN @ THEN @[n] ELSE 0)
                               + (IF [n EXCEPT !.rec = TRUE] \in DOMAIN @
                                  THEN @[[n EXCEPT !.rec = TRUE]] ELSE 0)],
              !.timers = {}]

\* timers.delete(key): no timeout is recorded for the key any more.  The
\* key's timeouts stay outstanding, with rec unset: the count of such a
\* timeout is that of the ones that were unrecorded before plus that of the
\* ones that were recorded.
timersDelete(s, key) ==
    LET olds == DOMAIN s.scheduled
        unrec(t) == IF t.key = key THEN [t EXCEPT !.rec = FALSE] ELSE t
        count(t) == IF t \in olds THEN s.scheduled[t] ELSE 0
        cnt(n) == IF n.key = key
                  THEN count(n) + count([n EXCEPT !.rec = TRUE])
                  ELSE count(n)
    IN  [s EXCEPT !.scheduled = [n \in {unrec(t) : t \in olds} |-> cnt(n)],
                  !.timers = @ \ {key}]

\* Mutant of schedule: the value is also written to storage at once.
scheduleWriteThrough(s, key, value) ==
    LET s0 == [s EXCEPT !.storage = MapSet(@, buildKey(key), Stringify(value))]
        s1 == IF key \in s0.timers THEN clearTimeout(s0, key) ELSE s0
    IN  setTimeout(s1, key, value)

\* set, the branch taken when debounce is truthy (lines 38-46): cancel the
\* timeout recorded for the key, start a new one and record it.
schedule(s, key, value) ==
    LET s1 == IF key \in s.timers THEN clearTimeout(s, key) ELSE s
    IN  setTimeout(s1, key, value)

\* Mutant of subscribe: the handler is put at the front of the key's array.
subscribeFront(s, key, handler) ==
    LET list == IF key \in DOMAIN s.subscribers THEN s.subscribers[key] ELSE <<>>
    IN  [s EXCEPT !.subscribers = MapSet(@, key, <<handler>> \o list)]

\* subscribe: the handler is pushed on the key's array.
subscribe(s, key, handler) ==
    LET list == IF key \in DOMAIN s.subscribers THEN s.subscribers[key] ELSE <<>>
    IN  [s EXCEPT !.subscribers = MapSet(@, key, Append(list, handler))]

\* Array.prototype.filter((fn) => fn !== handler)
RECURSIVE filterOut(_, _)
filterOut(list, handler) ==
    IF list = <<>> THEN <<>>
    ELSE IF Head(list) # handler
         THEN <<Head(list)>> \o filterOut(Tail(list), handler)
         ELSE filterOut(Tail(list), handler)

\* Mutant of unsubscribe: the key's whole entry is deleted.
unsubscribeAll(s, key, handler) ==
    [s EXCEPT !.subscribers = MapDelete(@, key)]

\* Mutant of unsubscribe: the filtered array is always stored, also when empty.
unsubscribeKeepEmpty(s, key, handler) ==
    LET list == IF key \in DOMAIN s.subscribers THEN s.subscribers[key] ELSE <<>>
    IN  [s EXCEPT !.subscribers = MapSet(@, key, filterOut(list, handler))]

\* The function subscribe(key, handler) returns (lines 56-63).
unsubscribe(s, key, handler) ==
    LET list == IF key \in DOMAIN s.subscribers THEN s.subscribers[key] ELSE <<>>
        next == filterOut(list, handler)
    IN  IF Len(next) # 0
        THEN [s EXCEPT !.subscribers = MapSet(@, key, next)]
        ELSE [s EXCEPT !.subscribers = MapDelete(@, key)]

\* One call handler(value) made by notify for key: the call is logged, then the
\* handler runs.  hSet calls set(K1, value), which takes the debounced branch;
\* the exception of hThrow is caught nowhere in the store; hUnsub calls the
\* function subscribe(key, h1) returned.
invoke(s, handler, key, value) ==
    LET s1 == [s EXCEPT !.called = Append(@, [h |-> handler, key |-> key, value |-> value])]
    IN  IF handler = "hSet" THEN schedule(s1, K1, value)
        ELSE IF handler = "hThrow" THEN [s1 EXCEPT !.thrown = TRUE]
        ELSE IF handler = "hUnsub" THEN unsubscribe(s1, key, "h1")
        ELSE s1

\* handlers.forEach(...): the elements the array had when the loop began, in
\* index order; an exception ends the loop.
RECURSIVE forEach(_, _, _, _, _)
forEach(s, handlers, i, key, value) ==
    IF i > Len(handlers) \/ s.thrown
    THEN s
    ELSE forEach(invoke(s, handlers[i], key, value), handlers, i + 1, key, value)

notify(s, key, value) ==
    IF key \notin DOMAIN s.subscribers
    THEN s
    ELSE forEach(s, s.subscribers[key], 1, key, value)

\* setItem succeeds unless storage is disabled or the quota is exceeded.
WriteOk(s, key) == ~s.disabled /\ key \notin s.fails

\* Mutant of commit: no try block, so an exception of the write leaves commit
\* before notify.
commitNoCatch(s, key, value) ==
    IF ~StringifyThrows(value) /\ WriteOk(s, key)
    THEN notify([s EXCEPT !.storage = MapSet(@, buildKey(key), Stringify(value)),
                          !.written = @ \cup {key}], key, value)
    ELSE [s EXCEPT !.thrown = TRUE]

\* Mutant of commit: JSON.stringify(value) is evaluated before the try block,
\* so its exception leaves commit.
commitStringifyFirst(s, key, value) ==
    IF StringifyThrows(value)
    THEN [s EXCEPT !.thrown = TRUE]
    ELSE LET s1 == IF WriteOk(s, key)
                   THEN [s EXCEPT !.storage = MapSet(@, buildKey(key), Stringify(value)),
                                  !.written = @ \cup {key}]
                   ELSE s
         IN  notify(s1, key, value)

\* commit: JSON.stringify and setItem are both inside the try block, so an
\* exception of either is caught and nothing is written; notify follows.
commit(s, key, value) ==
    LET s1 == IF ~StringifyThrows(value) /\ WriteOk(s, key)
              THEN [s EXCEPT !.storage = MapSet(@, buildKey(key), Stringify(value)),
                             !.written = @ \cup {key}]
              ELSE s
    IN  notify(s1, key, value)

\* Mutant of set: subscribers are told of a debounced value when it is scheduled.
setNotifyAtOnce(s, key, value, debounce) ==
    IF debounce # 0
    THEN notify(schedule(s, key, value), key, value)
    ELSE commit(s, key, value)

set(s, key, value, debounce) ==
    IF debounce # 0
    THEN schedule(s, key, value)
    ELSE commit(s, key, value)

\* The function given to setTimeout by set (lines 42-45), run for timeout t.
timerCallback(s, t) ==
    LET s1 == commit([s EXCEPT !.scheduled = @ (-) SetToBag({t})], t.key, t.value)
    IN  IF s1.thrown THEN s1 ELSE timersDelete(s1, t.key)

\* Mutant of get: JSON.parse(raw) || fallback, so a stored value that is falsy
\* gives the fallback.
getOrFallback(s, key, fallback) ==
    IF s.disabled THEN fallback
    ELSE IF buildKey(key) \notin DOMAIN s.storage THEN fallback
    ELSE LET raw == s.storage[buildKey(key)]
         IN  IF raw = "" THEN fallback
             ELSE IF ParseOk(raw)
                  THEN (IF Parse(raw) \in {VNull, VZero} THEN fallback ELSE Parse(raw))
                  ELSE fallback

\* Mutant of get: a value waiting in a recorded timeout is returned in place
\* of the stored one.
getPending(s, key, fallback) ==
    IF \E t \in DOMAIN s.scheduled : t.key = key /\ t.rec
    THEN (CHOOSE t \in DOMAIN s.scheduled : t.key = key /\ t.rec).value
    ELSE IF s.disabled THEN fallback
    ELSE IF buildKey(key) \notin DOMAIN s.storage THEN fallback
    ELSE LET raw == s.storage[buildKey(key)]
         IN  IF raw = "" THEN fallback
             ELSE IF ParseOk(raw) THEN Parse(raw)
             ELSE fallback

\* The try block of get (lines 20-21): [thrown, value].  getItem throws when
\* storage is disabled and gives null for an absent key; JSON.parse throws on
\* a text that is not JSON.
getTry(s, key, fallback) ==
    IF s.disabled THEN [thrown |-> TRUE, value |-> VNull]
    ELSE IF buildKey(key) \notin DOMAIN s.storage THEN [thrown |-> FALSE, value |-> fallback]
    ELSE LET raw == s.storage[buildKey(key)]
         IN  IF raw = "" THEN [thrown |-> FALSE, value |-> fallback]
             ELSE IF ParseOk(raw) THEN [thrown |-> FALSE, value |-> Parse(raw)]
             ELSE [thrown |-> TRUE, value |-> VNull]

\* Mutant of getCall: the try block without the catch.
getNoCatch(s, key, fallback) == getTry(s, key, fallback)

\* A call of get as the caller sees it, [thrown, value]: the catch clause
\* (lines 22-25) turns an exception of the try block into the fallback.
getCall(s, key, fallback) ==
    LET r == getTry(s, key, fallback)
    IN  IF r.thrown THEN [thrown |-> FALSE, value |-> fallback] ELSE r

\* get, as the value it returns: the stored text parsed, or the fallback.
get(s, key, fallback) ==
    IF s.disabled THEN fallback
    ELSE IF buildKey(key) \notin DOMAIN s.storage THEN fallback
    ELSE LET raw == s.storage[buildKey(key)]
         IN  IF raw = "" THEN fallback
             ELSE IF ParseOk(raw) THEN Parse(raw)
             ELSE fallback

\* Mutant of hydrate: each entry goes through set with the default debounce.
RECURSIVE hydrateDebounced(_, _)
hydrateDebounced(s, entries) ==
    IF entries = <<>> \/ s.thrown
    THEN s
    ELSE hydrateDebounced(schedule(s, Head(entries)[1], Head(entries)[2]), Tail(entries))

\* Mutant of hydrate: a replacement, the store's keys that data does not have
\* are removed before the entries are committed.
hydrateReplace(s, entries) ==
    LET RECURSIVE each(_, _)
        each(s1, es) ==
            IF es = <<>> \/ s1.thrown
            THEN s1
            ELSE each(commit(s1, Head(es)[1], Head(es)[2]), Tail(es))
        kept == {buildKey(entries[i][1]) : i \in 1..Len(entries)}
        own == {buildKey(key) : key \in Keys}
        gone == {pk \in DOMAIN s.storage : pk \in own /\ pk \notin kept}
    IN  each([s EXCEPT !.storage = [pk \in DOMAIN @ \ gone |-> @[pk]]], entries)

\* hydrate: Object.entries(data).forEach(commit); entries is the sequence of
\* <<key, value>> pairs in the object's own order.
RECURSIVE hydrate(_, _)
hydrate(s, entries) ==
    IF entries = <<>> \/ s.thrown
    THEN s
    ELSE hydrate(commit(s, Head(entries)[1], Head(entries)[2]), Tail(entries))

-----------------------------------------------------------------------------
(* The views.  dom is [checked, completed, total, objectives, progress,    *)
(* complete]: the skill checkboxes that are checked, the skill items of    *)
(* class 'completed', the text of #skill-points-total, the checked         *)
(* objective checkboxes of the quest card, the percentage the card shows    *)
(* (meta text and progress bar) and whether the card has class 'complete'. *)
(* Notifier toasts and the card filter, left at its default, are not part  *)
(* of dom.                                                                 *)

\* Utils.formatKey: parts.join(':').toLowerCase().replace(/\s+/g, '-'); the
\* parts of the model are lower case and have no white space.
RECURSIVE formatKey(_)
formatKey(parts) ==
    IF Len(parts) = 1 THEN Head(parts)
    ELSE Head(parts) \o ":" \o formatKey(Tail(parts))

\* String(index) for the indexes of the model.
IndexText(index) == IF index = 0 THEN "0" ELSE "1"

\* The logical key of a view, a text the store never takes apart.
buildObjectiveKey(questId, index) == << formatKey(<<"quest", questId, IndexText(index)>>) >>

STORAGE_KEY == << "skills:selected" >>

\* skill.cost
Cost(skillId) == 5

\* JavaScript truthiness of a value.
Truthy(v) ==
    CASE v.t = "null"    -> FALSE
      [] v.t = "number"  -> v.s # "0"
      [] v.t = "boolean" -> v.s = "true"
      [] v.t = "object"  -> TRUE

\* selected[skillId], as a condition
HasSkill(selected, skillId) == \E i \in 1..Len(selected.keys) : selected.keys[i] = skillId

\* selected[skillId] = true
PutSkill(selected, skillId) ==
    IF HasSkill(selected, skillId) THEN selected
    ELSE VObject(Append(selected.keys, skillId))

\* delete selected[skillId]
DeleteSkill(selected, skillId) ==
    VObject(SelectSeq(selected.keys, LAMBDA k : k # skillId))

getSelected(s) == get(s, STORAGE_KEY, VObject(<<>>))

\* StorageManager.set(STORAGE_KEY, value): no option, so the default debounce.
setSelected(s, value) == set(s, STORAGE_KEY, value, defaultDelay)

calculatePoints(s) ==
    LET selected == getSelected(s)
        RECURSIVE sum(_)
        sum(S) == IF S = {} THEN 0
                  ELSE LET x == CHOOSE y \in S : TRUE IN Cost(x) + sum(S \ {x})
    IN  [s EXCEPT !.dom.total = sum({id \in SkillIds : HasSkill(selected, id)})]

\* toggleSkill(checkbox), for the checkbox of skillId; checkbox.checked is
\* what dom holds when the change event arrives.
toggleSkill(s, skillId) ==
    LET selected == getSelected(s)
        checked == skillId \in s.dom.checked
        next == IF checked THEN PutSkill(selected, skillId) ELSE DeleteSkill(selected, skillId)
        s1 == setSelected(s, next)
        s2 == [s1 EXCEPT !.dom.completed = IF checked THEN @ \cup {skillId} ELSE @ \ {skillId}]
    IN  calculatePoints(s2)

\* Math.round(completedCount / quest.objectives.length * 100), with the
\* objectives read back from the store.
computeQuestProgress(s) ==
    LET completedCount ==
            Cardinality({index \in ObjectiveIndexes :
                           Truthy(get(s, buildObjectiveKey(QuestId, index), VFalse))})
        length == Cardinality(ObjectiveIndexes)
    IN  (2 * completedCount * 100 + length) \div (2 * length)

updateQuestCompletionState(s, progress) ==
    [s EXCEPT !.dom.complete = (progress = 100), !.dom.progress = progress]

\* handleObjectiveChange(checkbox), for the checkbox of objective index.
handleObjectiveChange(s, index) ==
    LET key == buildObjectiveKey(QuestId, index)
        value == IF index \in s.dom.objectives THEN VTrue ELSE VFalse
        s1 == set(s, key, value, defaultDelay)
    IN  updateQuestCompletionState(s1, computeQuestProgress(s1))

\* What the views' init functions build from the store at page load
\* (renderSkill, calculatePoints, renderQuestCard).
render(s) ==
    LET selected == getSelected(s)
        skills == {id \in SkillIds : HasSkill(selected, id)}
        done == {index \in ObjectiveIndexes :
                   Truthy(get(s, buildObjectiveKey(QuestId, index), VFalse))}
        s1 == calculatePoints([s EXCEPT !.dom.checked = skills, !.dom.completed = skills,
                                        !.dom.objectives = done])
    IN  updateQuestCompletionState(s1, computeQuestProgress(s1)).dom

\* Mutant of reload: the timeouts of the old page survive the reload.
reloadKeepTimers(s) ==
    [s EXCEPT !.subscribers = EmptyMap, !.dom = render(s)]

\* A page reload: the script runs again, so subscribers and timers are new
\* empty Maps (lines 6-7); the browser drops the old page's timeouts with the
\* page and keeps localStorage, and the views build the page again.
reload(s) ==
    [s EXCEPT !.subscribers = EmptyMap, !.timers = {}, !.scheduled = EmptyBag,
              !.dom = render(s)]

\* String.prototype.startsWith
startsWith(str, p) == Len(str) >= Len(p) /\ SubSeq(str, 1, Len(p)) = p

\* String.prototype.replace(pat, ''): the first occurrence of pat is removed.
replace(str, pat) ==
    LET hits == {i \in 1..(Len(str) - Len(pat) + 1) : SubSeq(str, i, i + Len(pat) - 1) = pat}
    IN  IF hits = {} THEN str
        ELSE LET i == CHOOSE j \in hits : \A m \in hits : j <= m
             IN  SubSeq(str, 1, i - 1) \o SubSeq(str, i + Len(pat), Len(str))

\* Mutant of snapshot: a value waiting in a recorded timeout is put in the
\* result under its key.
snapshotPending(s) ==
    LET own == {pk \in DOMAIN s.storage : startsWith(pk, prefix)}
        short(pk) == replace(pk, prefix \o <<":">>)
        pending == {t \in DOMAIN s.scheduled : t.rec}
    IN  IF s.disabled \/ \E pk \in own : ~ParseOk(s.storage[pk])
        THEN [thrown |-> TRUE, data |-> EmptyMap]
        ELSE [thrown |-> FALSE,
              data |-> [sk \in {short(pk) : pk \in own} \cup {t.key : t \in pending} |->
                          IF \E t \in pending : t.key = sk
                          THEN (CHOOSE t \in pending : t.key = sk).value
                          ELSE Parse(s.storage[CHOOSE pk \in own : short(pk) = sk])]]

\* snapshot: [thrown, data].  Reading a disabled localStorage throws, and so
\* does JSON.parse on a text that is not JSON; neither is caught.
snapshot(s) ==
    LET own == {pk \in DOMAIN s.storage : startsWith(pk, prefix)}
        short(pk) == replace(pk, prefix \o <<":">>)
    IN  IF s.disabled \/ \E pk \in own : ~ParseOk(s.storage[pk])
        THEN [thrown |-> TRUE, data |-> EmptyMap]
        ELSE [thrown |-> FALSE,
              data |-> [sk \in {short(pk) : pk \in own} |->
                          Parse(s.storage[CHOOSE pk \in own : short(pk) = sk])]]

-----------------------------------------------------------------------------
(* The state machine *)

\* The page before the views have built it.
BlankPage ==
    [checked |-> {}, completed |-> {}, total |-> 0,
     objectives |-> {}, progress |-> 0, complete |-> FALSE]

\* The store's state at the start of an operation during which setItem throws
\* for the keys in fails.
Cur(fails) ==
    [storage |-> storage, disabled |-> disabled, fails |-> fails,
     subscribers |-> subscribers, timers |-> timers, scheduled |-> scheduled,
     written |-> written, dom |-> dom, called |-> <<>>, thrown |-> FALSE]

\* The handlers registered for key in s, as an array.
Registered(s, key) == IF key \in DOMAIN s.subscribers THEN s.subscribers[key] ELSE <<>>

\* The number of handlers registered in s, over all keys.
NumSubs(s) ==
    LET RECURSIVE sum(_)
        sum(K) == IF K = {} THEN 0
                  ELSE LET k == CHOOSE x \in K : TRUE
                       IN  Len(s.subscribers[k]) + sum(K \ {k})
    IN  sum(DOMAIN s.subscribers)

\* The operation ends in state s2, within the bounds of the model.
Becomes(s2) ==
    /\ BagCardinality(s2.scheduled) <= MaxTimers
    /\ NumSubs(s2) <= MaxSubs
    /\ storage' = s2.storage
    /\ disabled' = s2.disabled
    /\ subscribers' = s2.subscribers
    /\ timers' = s2.timers
    /\ scheduled' = s2.scheduled
    /\ written' = s2.written
    /\ dom' = s2.dom

Init ==
    /\ storage \in InitialStorages
    /\ disabled \in BOOLEAN
    /\ subscribers = EmptyMap
    /\ timers = {}
    /\ scheduled = EmptyBag
    /\ written = {k \in Keys : buildKey(k) \in DOMAIN storage}
    /\ dom = render([storage |-> storage, disabled |-> disabled, fails |-> {},
                     subscribers |-> EmptyMap, timers |-> {}, scheduled |-> EmptyBag,
                     written |-> {}, dom |-> BlankPage, called |-> <<>>,
                     thrown |-> FALSE])

\* A caller calls set(key, value, {debounce}); setItem throws for the keys in fails.
SetCall(key, value, debounce, fails) == Becomes(set(Cur(fails), key, value, debounce))

Set ==
    \E key \in Keys, value \in Values, debounce \in Debounces :
      \E fails \in (IF debounce = 0 THEN SUBSET {key} ELSE {{}}) :
        SetCall(key, value, debounce, fails)

\* The outstanding timeout t comes due and its callback runs.
FireTimer(t, fails) == Becomes(timerCallback(Cur(fails), t))

Fire ==
    \E t \in DOMAIN scheduled :
      \E fails \in SUBSET {t.key} :
        FireTimer(t, fails)

\* A caller calls get(key, fallback): the store's state is left as it is, and
\* the call returns get(Cur({}), key, fallback).
Get ==
    \E key \in Keys, fallback \in Fallbacks :
      /\ getCall(Cur({}), key, fallback).value \in StoredValues \cup Fallbacks
      /\ UNCHANGED vars

\* A caller calls subscribe(key, handler) and keeps the function it returns.
Subscribe ==
    \E key \in Keys, handler \in Handlers :
      Becomes(subscribe(Cur({}), key, handler))

\* A caller calls the function that subscribe(key, handler) returned.  (With
\* the handler no longer registered for the key the call changes nothing.)
Unsubscribe ==
    \E key \in DOMAIN subscribers :
      \E i \in 1..Len(subscribers[key]) :
        Becomes(unsubscribe(Cur({}), key, subscribers[key][i]))

\* A caller calls snapshot(): the store's state is left as it is.
Snapshot ==
    /\ snapshot(Cur({})).thrown \in BOOLEAN
    /\ UNCHANGED vars

\* The objects passed to hydrate, as their entries in order.
HydrateInputs ==
    {<<>>} \cup {<< <<k, v>> >> : k \in Keys, v \in Values}
           \cup {e \in {<< <<k1, v1>>, <<k2, v2>> >> :
                         k1 \in Keys, k2 \in Keys, v1 \in Values, v2 \in Values} :
                   e[1][1] # e[2][1]}

EntryKeys(entries) == {entries[i][1] : i \in 1..Len(entries)}

\* A caller calls hydrate(data).
HydrateCall(entries, fails) == Becomes(hydrate(Cur(fails), entries))

Hydrate ==
    \E entries \in HydrateInputs :
      \E fails \in SUBSET EntryKeys(entries) :
        HydrateCall(entries, fails)

Next ==
    \/ Set
    \/ Fire
    \/ Get
    \/ Subscribe
    \/ Unsubscribe
    \/ Snapshot
    \/ Hydrate

Spec == Init /\ [][Next]_vars

\* The same store in a page where a subscriber may be a handler that throws.
SubscribeFaulty ==
    \E key \in Keys, handler \in FaultyHandlers :
      Becomes(subscribe(Cur({}), key, handler))

NextFaulty ==
    \/ Next
    \/ SubscribeFaulty

SpecFaulty == Init /\ [][NextFaulty]_vars

\* The same store in a page where a subscriber may unsubscribe another one
\* while it is being notified.
SubscribeReentrant ==
    \E key \in Keys, handler \in ReentrantHandlers :
      Becomes(subscribe(Cur({}), key, handler))

NextReentrant ==
    \/ Next
    \/ SubscribeReentrant

SpecReentrant == Init /\ [][NextReentrant]_vars

\* The same store with a caller that passes set a value JSON cannot serialise,
\* to be written at once.
SetMisuse ==
    \E key \in Keys, value \in MisuseValues :
      SetCall(key, value, 0, {})

NextMisuse ==
    \/ Next
    \/ SetMisuse

SpecMisuse == Init /\ [][NextMisuse]_vars

\* The same store in a page that the user may reload.
Reload == Becomes(reload(Cur({})))

NextReload ==
    \/ Next
    \/ Reload

SpecReload == Init /\ [][NextReload]_vars

\* The page with its views, in a browser whose localStorage works and has
\* room: the user clicks checkboxes, and timeouts run.
InitViews == Init /\ ~disabled

\* The user clicks a checkbox: its state flips before the change event.
clickSkill(s, skillId) ==
    [s EXCEPT !.dom.checked = IF skillId \in @ THEN @ \ {skillId} ELSE @ \cup {skillId}]

clickObjective(s, index) ==
    [s EXCEPT !.dom.objectives = IF index \in @ THEN @ \ {index} ELSE @ \cup {index}]

\* The user clicks the checkbox of a skill and the change handler runs.
ToggleSkill ==
    \E skillId \in SkillIds :
      Becomes(toggleSkill(clickSkill(Cur({}), skillId), skillId))

\* The user clicks the checkbox of an objective of the quest.
ObjectiveChange ==
    \E index \in ObjectiveIndexes :
      Becomes(handleObjectiveChange(clickObjective(Cur({}), index), index))

\* A timeout runs and its write succeeds.
FireWritten ==
    \E t \in DOMAIN scheduled : FireTimer(t, {})

NextViews ==
    \/ ToggleSkill
    \/ ObjectiveChange
    \/ FireWritten

SpecViews == InitViews /\ [][NextViews]_vars

-----------------------------------------------------------------------------
(* Properties.  Each is checked in every reachable state; an operation      *)
(* applied to the current state is written with the operation's function.  *)

\* The outstanding timeouts of s for key, each once.
KeyTimers(s, key) == {t \in DOMAIN s.scheduled : t.key = key}

\* The number of outstanding timeouts of s for key.
NumKeyTimers(s, key) == BagCardinality([t \in KeyTimers(s, key) |-> s.scheduled[t]])

\* The handlers of a sequence of calls, in order.
CalledHandlers(calls) == [i \in 1..Len(calls) |-> calls[i].h]

\* The number of occurrences of x in list.
Count(list, x) == Cardinality({i \in 1..Len(list) : list[i] = x})

\* C1 (as stated): for every key k, JSON value v and fallback f,
\* set(k, v, {debounce: 0}) immediately followed by get(k, f) returns v,
\* whatever the state of the store and of its storage.
C1_RoundTrip ==
    \A k \in Keys, v \in JsonValues, f \in Fallbacks :
      \A fails \in SUBSET {k} :
        get(set(Cur(fails), k, v, 0), k, f) = v

\* C1 (amended): set(k, v, {debounce: 0}) immediately followed by get(k, f)
\* returns v whenever the physical write of that commit succeeds; when the
\* write fails, get(k, f) returns what it returned before the set.
C1_RoundTripWhenWritten ==
    \A k \in Keys, v \in JsonValues :
      \A fails \in SUBSET {k} :
        \A s2 \in {set(Cur(fails), k, v, 0)} :
          \A f \in Fallbacks :
            IF WriteOk(Cur(fails), k)
            THEN get(s2, k, f) = v
            ELSE get(s2, k, f) = get(Cur(fails), k, f)

\* C1 witness: a key holds an older committed value while a debounced write
\* of another value to it is pending.
C1_Witness ==
    \E t \in DOMAIN scheduled :
      /\ ~disabled
      /\ t.key \in written
      /\ get(Cur({}), t.key, VNull) \in Values \ {t.value}

\* C2: for every key that was never stored, get(k, f) returns f, also while a
\* debounced write to k is pending.
C2_FallbackOnMiss ==
    \A k \in Keys \ written, f \in Fallbacks :
      get(Cur({}), k, f) = f

\* C2 witness: a debounced write is pending for a key that was never stored.
C2_Witness == \E t \in DOMAIN scheduled : t.key \notin written

\* C3: after set(k, v2, {debounce: d}) the earlier debounced writes to k that
\* have not run are discarded: exactly one timeout is outstanding for k, it
\* carries v2, and when it runs every subscriber of k is called exactly once,
\* with v2.
C3_Coalesce ==
    \A k \in Keys, v2 \in Values :
      LET s2 == set(Cur({}), k, v2, defaultDelay)
      IN  /\ NumKeyTimers(s2, k) = 1
          /\ \A t \in KeyTimers(s2, k) :
               /\ t.value = v2
               /\ LET s3 == timerCallback(s2, t)
                  IN  /\ CalledHandlers(s3.called) = Registered(s2, k)
                      /\ \A i \in 1..Len(s3.called) : s3.called[i].value = v2

\* C4: get(k, f) returns the same value before and after every operation that
\* is not a commit of k: a debounced set of any key (so a pending value is
\* never read), a commit of another key, subscribe and unsubscribe.
C4_GetSeesCommitted ==
    LET Same(s2, ks) == \A k \in ks, f \in Fallbacks : get(s2, k, f) = get(Cur({}), k, f)
    IN  /\ \A k2 \in Keys, v \in Values :
             Same(set(Cur({}), k2, v, defaultDelay), Keys)
        /\ \A k2 \in Keys, v \in Values :
             \A fails \in SUBSET {k2} :
               /\ Same(set(Cur(fails), k2, v, 0), Keys \ {k2})
               /\ Same(hydrate(Cur(fails), << <<k2, v>> >>), Keys \ {k2})
        /\ \A t \in DOMAIN scheduled :
             \A fails \in SUBSET {t.key} :
               Same(timerCallback(Cur(fails), t), Keys \ {t.key})
        /\ \A k2 \in Keys, h \in Handlers :
             /\ Same(subscribe(Cur({}), k2, h), Keys)
             /\ Same(unsubscribe(Cur({}), k2, h), Keys)

\* C4 witness: a debounced write to a key is pending and get returns the
\* key's stored value, which is another value.
C4_Witness ==
    \E t \in DOMAIN scheduled :
      /\ t.rec
      /\ get(Cur({}), t.key, VNull) \in Values
      /\ get(Cur({}), t.key, VNull) # t.value
      /\ Registered(Cur({}), t.key) # <<>>

\* C5: a debounced set, subscribe and unsubscribe call no handler; a commit
\* of k (set with debounce 0, hydrate, a timeout that runs) calls handlers for
\* k with the committed value only.  (get and snapshot return a value and
\* contain no call.)
C5_NotifyOnCommitOnly ==
    \A k \in Keys :
      /\ \A h \in Handlers :
           /\ subscribe(Cur({}), k, h).called = <<>>
           /\ unsubscribe(Cur({}), k, h).called = <<>>
      /\ \A v \in Values :
           /\ set(Cur({}), k, v, defaultDelay).called = <<>>
           /\ \A fails \in SUBSET {k} :
                /\ \A calls \in {set(Cur(fails), k, v, 0).called} :
                     \A i \in 1..Len(calls) : calls[i].key = k /\ calls[i].value = v
                /\ \A calls \in {hydrate(Cur(fails), << <<k, v>> >>).called} :
                     \A i \in 1..Len(calls) : calls[i].key = k /\ calls[i].value = v
      /\ \A fails \in SUBSET {k} :
           \A t \in KeyTimers(Cur(fails), k) :
             \A calls \in {timerCallback(Cur(fails), t).called} :
               \A i \in 1..Len(calls) : calls[i].key = k /\ calls[i].value = t.value

\* C5 witness: a debounced write is pending for a key that has a subscriber.
C5_Witness ==
    \E t \in DOMAIN scheduled : t.key \in DOMAIN subscribers

\* C6: after set(k, v2, {debounce: 0}) no debounced write to k is pending: no
\* timeout is outstanding for k and timers has no entry for k.
C6_ImmediateSetLeavesNothingPending ==
    \A k \in Keys, v2 \in Values, fails \in SUBSET Keys :
      LET s2 == set(Cur(fails), k, v2, 0)
      IN  KeyTimers(s2, k) = {} /\ k \notin s2.timers

\* C7: with exactly the two handlers h1 # h2 registered for k, after h1's
\* unsubscribe the next commit of k calls h2 once, with the committed value,
\* and does not call h1.
C7_SubscriberIsolation ==
    \A k \in Keys, h1 \in Handlers, h2 \in Handlers :
      (h1 # h2 /\ Registered(Cur({}), k) \in {<<h1, h2>>, <<h2, h1>>}) =>
        \A v \in Values, fails \in SUBSET {k} :
          LET s1 == unsubscribe(Cur(fails), k, h1)
          IN  set(s1, k, v, 0).called = << [h |-> h2, key |-> k, value |-> v] >>

\* C7 witness: two different handlers are registered for one key.
C7_Witness ==
    \E k \in DOMAIN subscribers :
      Len(subscribers[k]) = 2 /\ subscribers[k][1] # subscribers[k][2]

\* C8: the unsubscribe function of one subscription removes that subscription
\* only: the handler's array loses one entry, an entry of that handler.
C8_UnsubscribeRemovesOne ==
    \A k \in DOMAIN subscribers :
      \A i \in 1..Len(subscribers[k]) :
        LET h == subscribers[k][i]
            after == Registered(unsubscribe(Cur({}), k, h), k)
        IN  \A x \in Handlers :
              Count(after, x) = Count(subscribers[k], x) - (IF x = h THEN 1 ELSE 0)

\* a is b with some elements left out, the others in b's order.
RECURSIVE IsSubsequence(_, _)
IsSubsequence(a, b) ==
    IF a = <<>> THEN TRUE
    ELSE IF b = <<>> THEN FALSE
    ELSE IF Head(a) = Head(b) THEN IsSubsequence(Tail(a), Tail(b))
    ELSE IsSubsequence(a, Tail(b))

C10_ForeignKeysUntouched ==
    /\ \A pk \in DOMAIN ForeignStorage :
         pk \in DOMAIN storage /\ storage[pk] = ForeignStorage[pk]
    /\ DOMAIN storage \subseteq DOMAIN ForeignStorage \cup {PhysicalKey(k) : k \in Keys}

\* C10 witness: the store has written logical key K2, which is spelled like a
\* foreign physical key.
C10_Witness ==
    /\ PhysicalKey(K2) \in DOMAIN storage
    /\ storage[PhysicalKey(K2)] \in {"0", "5"}

\* C11: every entry of snapshot()'s result stands for a physical key
\* prefix + ":" + logical key and carries that key's stored value; no physical
\* key of another user of the storage is a key of the result.
C11_SnapshotOwnKeysOnly ==
    LET r == snapshot(Cur({}))
    IN  ~r.thrown =>
          /\ \A sk \in DOMAIN r.data :
               /\ PhysicalKey(sk) \in DOMAIN storage
               /\ r.data[sk] = Parse(storage[PhysicalKey(sk)])
          /\ \A pk \in DOMAIN ForeignStorage : pk \notin DOMAIN r.data

\* Object.entries(data): the <<key, value>> pairs of data, each key once, in
\* the object's own order, which is any order here.
EntriesOf(data) ==
    LET n == Cardinality(DOMAIN data)
    IN  {[i \in 1..n |-> <<ks[i], data[ks[i]]>>] :
           ks \in {f \in [1..n -> DOMAIN data] : \A i, j \in 1..n : f[i] = f[j] => i = j}}

\* C12: hydrate(snapshot()) changes nothing the store holds: snapshot() gives
\* the same result after as before, and physical storage has the same keys.
C12_HydrateSnapshotInverse ==
    LET before == snapshot(Cur({}))
    IN  ~before.thrown =>
          \A entries \in EntriesOf(before.data) :
            LET s2 == hydrate(Cur({}), entries)
            IN  /\ ~s2.thrown
                /\ snapshot(s2) = before
                /\ DOMAIN s2.storage = DOMAIN storage

\* The calls that notifying the subscribers of each entry's key with the
\* entry's value makes, entry after entry, each key's handlers in array order.
RECURSIVE EntryCalls(_, _)
EntryCalls(s, entries) ==
    IF entries = <<>> THEN <<>>
    ELSE LET key == Head(entries)[1]
             value == Head(entries)[2]
             list == Registered(s, key)
         IN  [i \in 1..Len(list) |-> [h |-> list[i], key |-> key, value |-> value]]
               \o EntryCalls(s, Tail(entries))

\* C13: when hydrate(m) returns, every key of m whose write succeeded holds
\* its value in storage, the subscribers of each key were called with the
\* key's value, key after key in the order of m's entries, and hydrate started
\* no timeout: timers and the outstanding timeouts are as before, but for the
\* timeouts that a called subscriber started for its own key K1.  The write
\* of m's first key succeeds or fails.
C13_HydrateCommitsInOrder ==
    \A entries \in HydrateInputs :
      \A fails \in SUBSET {entries[i][1] : i \in {1} \cap DOMAIN entries} :
       \A s \in {Cur(fails)} :
        \A s2 \in {hydrate(s, entries)} :
            ~s2.thrown =>
              /\ s2.called = EntryCalls(s, entries)
              /\ \A i \in 1..Len(entries) :
                   WriteOk(s, entries[i][1]) =>
                     /\ PhysicalKey(entries[i][1]) \in DOMAIN s2.storage
                     /\ s2.storage[PhysicalKey(entries[i][1])] = Stringify(entries[i][2])
              /\ \A k \in Keys \ {K1} :
                   KeyTimers(s2, k) = KeyTimers(s, k) /\ (k \in s2.timers <=> k \in timers)
              /\ (\A i \in 1..Len(s2.called) : s2.called[i].h # "hSet") =>
                   s2.scheduled = scheduled /\ s2.timers = timers

\* C13 witness: both keys have a subscriber and a stored value of the store's,
\* and a debounced write is pending.
C13_Witness ==
    /\ DOMAIN subscribers = Keys
    /\ \A k \in Keys :
         PhysicalKey(k) \in DOMAIN storage /\ storage[PhysicalKey(k)] \in {"0", "5"}
    /\ scheduled # EmptyBag

\* C14: after hydrate(m), whatever failed on the way, every key of m whose
\* own write can succeed holds its value in storage, and every subscriber of
\* every key of m was called with that key's value.
C14_HydrateFailureIsolation ==
    \A entries \in HydrateInputs :
      \A fails \in SUBSET EntryKeys(entries) :
        LET s == Cur(fails)
            s2 == hydrate(s, entries)
        IN  \A i \in 1..Len(entries) :
              LET key == entries[i][1]
                  value == entries[i][2]
                  list == Registered(s, key)
              IN  /\ WriteOk(s, key) =>
                       /\ PhysicalKey(key) \in DOMAIN s2.storage
                       /\ s2.storage[PhysicalKey(key)] = Stringify(value)
                  /\ \A j \in 1..Len(list) :
                       \E n \in 1..Len(s2.called) :
                         s2.called[n] = [h |-> list[j], key |-> key, value |-> value]

\* The calls that notify(key, value) makes when no handler throws.
NotifyCalls(s, key, value) ==
    [i \in 1..Len(Registered(s, key)) |->
       [h |-> Registered(s, key)[i], key |-> key, value |-> value]]

\* C15: when the write of a commit fails (storage disabled, or the quota
\* exceeded for the key), the commit throws nothing, storage is as it was, and
\* every subscriber of the key is called with the value: for a set with
\* debounce 0 and for a timeout that runs.
C15_WriteFailureStillNotifies ==
    \A k \in Keys :
     \A fails \in SUBSET {k} :
      ~WriteOk(Cur(fails), k) =>
        /\ \A v \in Values :
             \A s2 \in {set(Cur(fails), k, v, 0)} :
               /\ ~s2.thrown
               /\ s2.storage = storage
               /\ s2.called = NotifyCalls(Cur(fails), k, v)
        /\ \A t \in KeyTimers(Cur(fails), k) :
             \A s2 \in {timerCallback(Cur(fails), t)} :
               /\ ~s2.thrown
               /\ s2.storage = storage
               /\ s2.called = NotifyCalls(Cur(fails), k, t.value)

\* C15 witness: storage is disabled, and a debounced write is pending for a
\* key that has a subscriber.
C15_Witness ==
    /\ disabled
    /\ \E t \in DOMAIN scheduled : t.key \in DOMAIN subscribers

\* C16: a call get(k, f) throws nothing and returns the value of get, which
\* is f when storage is disabled and when the text stored for k is not JSON.  (get is a function of
\* the store's state to the value returned: it has nothing to change storage,
\* timers or subscribers with.)
C16_GetNeverThrows ==
    \A k \in Keys, f \in Fallbacks :
      LET r == getCall(Cur({}), k, f)
          bad == /\ PhysicalKey(k) \in DOMAIN storage
                 /\ ~ParseOk(storage[PhysicalKey(k)])
      IN  /\ ~r.thrown
          /\ r.value = get(Cur({}), k, f)
          /\ (disabled \/ bad) => r.value = f

\* C16 witness: the text stored for a key is not JSON, in a store that has a
\* subscriber and a pending debounced write for the key.
C16_Witness ==
    \E k \in Keys :
      /\ ~disabled
      /\ PhysicalKey(k) \in DOMAIN storage
      /\ storage[PhysicalKey(k)] = BadText
      /\ k \in DOMAIN subscribers
      /\ KeyTimers(Cur({}), k) # {}

\* C17: with storage accessible, snapshot() throws nothing when the text
\* stored under one of the store's keys is not JSON.
C17_SnapshotToleratesBadJson ==
    (/\ ~disabled
     /\ \E k \in Keys : /\ PhysicalKey(k) \in DOMAIN storage
                        /\ ~ParseOk(storage[PhysicalKey(k)]))
      => ~snapshot(Cur({})).thrown

\* C18: snapshot() reads committed values only.  Its result is the same
\* before and after a debounced set, and when it returns, each logical key
\* that is stored has the value get returns for it, and each logical key that
\* was never stored is absent, also while a debounced write to it is pending.
\* (snapshot is a function of the store's state to the result: it has nothing
\* to change a stored value, timer or subscriber with, and it calls no
\* handler.)
C18_SnapshotSeesCommitted ==
    \A r \in {snapshot(Cur({}))} :
      /\ \A k \in Keys, v \in Values :
           snapshot(set(Cur({}), k, v, defaultDelay)) = r
      /\ ~r.thrown =>
           \A k \in Keys :
             IF PhysicalKey(k) \in DOMAIN storage
             THEN k \in DOMAIN r.data /\ r.data[k] = get(Cur({}), k, VNull)
             ELSE k \notin DOMAIN r.data

\* C18 witness: snapshot() returns, while one key holds a committed value and
\* has another value pending, and the other key has a value pending and was
\* never stored.
C18_Witness ==
    /\ ~snapshot(Cur({})).thrown
    /\ \E t1, t2 \in DOMAIN scheduled :
         /\ t1.rec /\ t2.rec
         /\ PhysicalKey(t1.key) \in DOMAIN storage
         /\ storage[PhysicalKey(t1.key)] # Stringify(t1.value)
         /\ PhysicalKey(t2.key) \notin DOMAIN storage

\* C19 (as stated): set(k, v, {debounce: 0}) with a value v that JSON cannot
\* serialise throws the serialisation error to its caller.
C19_SerialisationErrorPropagates ==
    \A k \in Keys : set(Cur({}), k, VCyclic, 0).thrown

\* C19 (amended): set(k, v, {debounce: 0}) with a value v that JSON cannot
\* serialise throws nothing: the serialisation error is caught with the write
\* errors, storage is as it was, and every subscriber of k is called with v.
C19_SerialisationErrorSwallowed ==
    \A k \in Keys :
      LET s2 == set(Cur({}), k, VCyclic, 0)
      IN  /\ ~s2.thrown
          /\ s2.storage = storage
          /\ s2.called = NotifyCalls(Cur({}), k, VCyclic)

\* C19 witness: a key holds a value of the store's, and a subscriber that was
\* called with the value JSON cannot serialise has scheduled it for writing.
C19_Witness ==
    /\ ~disabled
    /\ \E k \in DOMAIN subscribers :
         /\ PhysicalKey(k) \in DOMAIN storage
         /\ storage[PhysicalKey(k)] \in {"0", "5"}
    /\ \E t \in DOMAIN scheduled : t.value = VCyclic

\* C20: at most one timeout is outstanding for each logical key.
C20_OneTimerPerKey ==
    \A k \in Keys : NumKeyTimers(Cur({}), k) <= 1

\* C21: when a timeout of key k runs to its end, timers has no entry for k,
\* and every other key is as it was: its stored text, its subscribers, and,
\* but for key K1 when a called subscriber has set it, its outstanding
\* timeouts and its entry in timers.  Of k's own timeouts the one that ran is
\* gone.
C21_TimerFireFrame ==
    \A t \in DOMAIN scheduled :
      \A fails \in SUBSET {t.key} :
        \A s2 \in {timerCallback(Cur(fails), t)} :
          ~s2.thrown =>
            /\ t.key \notin s2.timers
            /\ \A pk \in DOMAIN storage \cup DOMAIN s2.storage :
                 pk # PhysicalKey(t.key) =>
                   /\ pk \in DOMAIN storage /\ pk \in DOMAIN s2.storage
                   /\ s2.storage[pk] = storage[pk]
            /\ WriteOk(Cur(fails), t.key) =>
                 /\ PhysicalKey(t.key) \in DOMAIN s2.storage
                 /\ s2.storage[PhysicalKey(t.key)] = Stringify(t.value)
            /\ s2.subscribers = subscribers
            /\ \A k2 \in Keys \ {t.key} :
                 (k2 # K1 \/ \A i \in 1..Len(s2.called) : s2.called[i].h # "hSet") =>
                   /\ KeyTimers(s2, k2) = KeyTimers(Cur({}), k2)
                   /\ NumKeyTimers(s2, k2) = NumKeyTimers(Cur({}), k2)
                   /\ (k2 \in s2.timers <=> k2 \in timers)

\* C21 witness: timeouts of both keys are outstanding, a key has a subscriber,
\* and both keys hold a value of the store's.
C21_Witness ==
    /\ \A k \in Keys :
         /\ KeyTimers(Cur({}), k) # {}
         /\ PhysicalKey(k) \in DOMAIN storage
         /\ storage[PhysicalKey(k)] \in {"0", "5"}
    /\ subscribers # EmptyMap

\* C22: for a handler h registered for k, with u the function its subscribe
\* returned: after u() a second u() changes nothing, also when a handler was
\* registered for k in between.
C22_UnsubscribeTwice ==
    \A k \in DOMAIN subscribers :
      \A i \in 1..Len(subscribers[k]) :
        \A s1 \in {unsubscribe(Cur({}), k, subscribers[k][i])} :
          /\ unsubscribe(s1, k, subscribers[k][i]) = s1
          /\ \A h2 \in Handlers :
               \A s2 \in {subscribe(s1, k, h2)} :
                 unsubscribe(s2, k, subscribers[k][i]) = s2

\* C23: every key that has an entry in subscribers has at least one handler
\* in it, now and after any one more subscribe or unsubscribe call.
C23_NoEmptyLists ==
    /\ \A k \in DOMAIN subscribers : Len(subscribers[k]) >= 1
    /\ \A k \in Keys, h \in Handlers :
         /\ \A s2 \in {unsubscribe(Cur({}), k, h)} :
              \A k2 \in DOMAIN s2.subscribers : Len(s2.subscribers[k2]) >= 1
         /\ \A s2 \in {subscribe(Cur({}), k, h)} :
              \A k2 \in DOMAIN s2.subscribers : Len(s2.subscribers[k2]) >= 1

\* C23 witness: a key has one handler, or the same handler twice, so that its
\* unsubscribe function leaves the key with none, while the other key has a
\* handler too.
C23_Witness ==
    /\ DOMAIN subscribers = Keys
    /\ \E k \in Keys :
         k \notin DOMAIN unsubscribe(Cur({}), k, subscribers[k][1]).subscribers

\* C24: a page reload leaves timers and subscribers empty and no timeout
\* outstanding, so no write that was pending can be committed later, and it
\* keeps storage: get(k, f) returns after the reload what it returned before,
\* the value last written, not the pending one.
C24_ReloadDropsPending ==
    \A s2 \in {reload(Cur({}))} :
      /\ s2.timers = {}
      /\ s2.subscribers = EmptyMap
      /\ DOMAIN s2.scheduled = {}
      /\ s2.storage = storage
      /\ \A k \in Keys, f \in Fallbacks : get(s2, k, f) = get(Cur({}), k, f)

\* C24 witness: a write to a key is pending whose value is not the one stored
\* for the key, and the key has a subscriber.
C24_Witness ==
    \E t \in DOMAIN scheduled :
      /\ t.key \in DOMAIN subscribers
      /\ ~disabled
      /\ PhysicalKey(t.key) \in DOMAIN storage
      /\ storage[PhysicalKey(t.key)] \in {"0", "5"} \ {Stringify(t.value)}

\* C25: after hydrate(m) with a written key k, with no set called afterwards,
\* get(k, f) returns m[k], also after a timeout for k that was outstanding
\* when hydrate ran has run.
C25_HydrateWinsOverPending ==
    \A k \in Keys, v \in Values :
      WriteOk(Cur({}), k) =>
        \A s2 \in {hydrate(Cur({}), << <<k, v>> >>)} :
          /\ get(s2, k, VNull) = v
          /\ \A t \in KeyTimers(s2, k) :
               t \in DOMAIN scheduled => get(timerCallback(s2, t), k, VNull) = v

\* A handler unsubscribed from a key while a debounced write of that key is
\* pending is not called when the timeout fires.
C26_PendingPart ==
    \A t \in DOMAIN scheduled, h \in Handlers :
      \A s2 \in {timerCallback(unsubscribe(Cur({}), t.key, h), t)} :
        \A i \in 1..Len(s2.called) :
          ~(s2.called[i].h = h /\ s2.called[i].key = t.key)

\* C26: a handler is never invoked after its unsubscribe function was called:
\* when it is unsubscribed while a debounced write is pending, and when, in the
\* notification round of a commit, hUnsub has unsubscribed h1 from the key.
C26_NoCallAfterUnsubscribe ==
    /\ C26_PendingPart
    /\ \A k \in Keys, v \in Values :
         \A s2 \in {set(Cur({}), k, v, 0)} :
           \A i, j \in 1..Len(s2.called) :
             ~(/\ i < j
               /\ s2.called[i].h = "hUnsub"
               /\ s2.called[j].h = "h1"
               /\ s2.called[i].key = s2.called[j].key)

\* C27: when a subscriber of key k throws while it is notified of a commit,
\* the subscribers of k registered after it are notified all the same, and a
\* timeout that made the commit still clears the pending-timer record of k:
\* a commit of (k, v) calls every registered handler of k, in order, and after
\* a timeout of k has run timers does not hold k.
C27_ThrowingSubscriberIsolated ==
    /\ \A k \in Keys, v \in Values :
         \A s2 \in {set(Cur({}), k, v, 0)} :
           s2.called = NotifyCalls(Cur({}), k, v)
    /\ \A t \in DOMAIN scheduled :
         \A s2 \in {timerCallback(Cur({}), t)} :
           /\ s2.called = NotifyCalls(Cur({}), t.key, t.value)
           /\ t.key \notin s2.timers

\* The object whose entries are the given <<key, value>> pairs.
DataOf(entries) ==
    [k \in EntryKeys(entries) |->
       entries[CHOOSE i \in 1..Len(entries) : entries[i][1] = k][2]]

\* C28: hydrate(m) is a merge: no key of storage is deleted and every key
\* absent from m keeps its text, so a stored key of the store's that m does
\* not have is still in snapshot() after hydrate(m), with its value, and
\* snapshot() equals m only if the store held no key outside m.
C28_HydrateMerges ==
    \A entries \in HydrateInputs :
      \A s2 \in {hydrate(Cur({}), entries)} :
        \A snap \in {snapshot(s2)} :
          /\ \A pk \in DOMAIN storage :
               /\ pk \in DOMAIN s2.storage
               /\ pk \notin {PhysicalKey(k) : k \in EntryKeys(entries)}
                    => s2.storage[pk] = storage[pk]
          /\ \A k \in Keys \ EntryKeys(entries) :
               (PhysicalKey(k) \in DOMAIN storage /\ ~snap.thrown)
                 => /\ k \in DOMAIN snap.data
                    /\ snap.data[k] = Parse(storage[PhysicalKey(k)])
          /\ (~snap.thrown /\ snap.data = DataOf(entries))
               => \A k \in Keys : PhysicalKey(k) \in DOMAIN storage => k \in EntryKeys(entries)

\* A key of the store's is stored, hydrate is given data without it, and the
\* snapshot taken afterwards returns and has the key.
C28_Witness ==
    \E entries \in HydrateInputs \ {<<>>} :
      \E k \in Keys \ EntryKeys(entries) :
        /\ PhysicalKey(k) \in DOMAIN storage
        /\ ~snapshot(hydrate(Cur({}), entries)).thrown
        /\ k \in DOMAIN snapshot(hydrate(Cur({}), entries)).data
        /\ snapshot(hydrate(Cur({}), entries)).data # DataOf(entries)

\* The skills the stored 'skills:selected' value has.
StoredSkills == {id \in SkillIds : HasSkill(getSelected(Cur({})), id)}

\* C29: after any sequence of skill toggles, once every debounce timeout has
\* run, the stored 'skills:selected' value has exactly the skills whose
\* checkboxes are checked.
C29_StoredSkillsAreCheckedSkills ==
    scheduled = EmptyBag => StoredSkills = dom.checked

\* The progress of the quest computed from its checkboxes.
CheckedProgress ==
    LET length == Cardinality(ObjectiveIndexes)
    IN  (2 * Cardinality(dom.objectives) * 100 + length) \div (2 * length)

\* C30: when handleObjectiveChange has returned, the progress the quest card
\* shows and its completion state are those computed from the checkboxes,
\* the one just changed included.
C30_ProgressShowsCheckboxes ==
    /\ dom.progress = CheckedProgress
    /\ dom.complete = (CheckedProgress = 100)

====
